---- MODULE Spec2Model ----
(***************************************************************************)
(* ECG Guard (src/App.tsx): the streaming pipeline of the App component.   *)
(* BLE notifications are decoded and parsed, accepted samples are pushed   *)
(* into inferenceBuffer, a full buffer is snapshotted as a window, slid by *)
(* FS samples and handed to performInference, which publishes mseScore and *)
(* healthStatus (mock branch: synchronously; ONNX branch: when the pending *)
(* session.run settles).                                                   *)
(*                                                                         *)
(* JavaScript numbers are modelled as exact rationals extended with NaN    *)
(* and the two infinities; binary rounding of doubles and of Float32Array  *)
(* is not modelled.  FS, SEQ_LEN_SEC and VISUAL_POINTS are the program's   *)
(* constants scaled down (250, 10 and 50 in the source).                   *)
(*                                                                         *)
(* Spec is the whole application; SpecStream is the pipeline during one    *)
(* sensor session; SpecConfig is the sample buffer under other model       *)
(* settings; SpecDetrend is the math helper detrend called on its own.     *)
(***************************************************************************)
EXTENDS Integers, Sequences, FiniteSets, TLC

\* ------------------------------------------------------------ configuration

\* src/App.tsx:31  const FS = 250 (scaled down)
FS == 2
\* src/App.tsx:32  const SEQ_LEN_SEC = 10 (scaled down)
SEQ_LEN_SEC == 2
\* src/App.tsx:33
MODEL_INPUT_SIZE == FS * SEQ_LEN_SEC
\* src/App.tsx:39  const VISUAL_POINTS = 50 (scaled down)
VISUAL_POINTS == 2
\* src/App.tsx:79  initial fill of displayData
DISPLAY_FILL == 2048
\* src/App.tsx:239  variance above which the mock branch forces an anomaly
SPIKE_VARIANCE == 2000000

\* Samples accepted after the first window has been emitted, in one run.
MaxExtra == 2
\* Accepted samples in one run.
MaxSamples == MODEL_INPUT_SIZE + MaxExtra
\* Sensor sessions (successful connections) in one run.
MaxSessions == 2

\* ------------------------------------------------------- JavaScript numbers

Abs(i) == IF i < 0 THEN -i ELSE i

Sign(i) == IF i < 0 THEN -1 ELSE IF i > 0 THEN 1 ELSE 0

RECURSIVE GCD(_, _)
GCD(a, b) == IF b = 0 THEN a ELSE GCD(b, a % b)

\* A finite number n/d in lowest terms with d > 0.
Rat(n, d) ==
    LET g == GCD(Abs(n), Abs(d))
        s == Sign(d)
    IN  [k |-> "num", n |-> (s * n) \div g, d |-> (s * d) \div g]

Num(i) == [k |-> "num", n |-> i, d |-> 1]

NaN == [k |-> "nan", n |-> 0, d |-> 1]

\* +Infinity (s = 1) or -Infinity (s = -1).
Inf(s) == [k |-> "inf", n |-> s, d |-> 1]

IsNaN(a) == a.k = "nan"

Neg(a) == [a EXCEPT !.n = -(a.n)]

Add(a, b) ==
    IF a.k = "nan" \/ b.k = "nan" THEN NaN
    ELSE IF a.k = "inf" THEN (IF b.k = "inf" /\ b.n # a.n THEN NaN ELSE a)
    ELSE IF b.k = "inf" THEN b
    ELSE Rat(a.n * b.d + b.n * a.d, a.d * b.d)

Sub(a, b) == Add(a, Neg(b))

Mul(a, b) ==
    IF a.k = "nan" \/ b.k = "nan" THEN NaN
    ELSE IF a.k = "inf" \/ b.k = "inf"
         THEN (IF a.n = 0 \/ b.n = 0 THEN NaN ELSE Inf(Sign(a.n) * Sign(b.n)))
    ELSE Rat(a.n * b.n, a.d * b.d)

Div(a, b) ==
    IF a.k = "nan" \/ b.k = "nan" THEN NaN
    ELSE IF a.k = "inf" THEN (IF b.k = "inf" THEN NaN
                              ELSE Inf(a.n * (IF b.n < 0 THEN -1 ELSE 1)))
    ELSE IF b.k = "inf" THEN Num(0)
    ELSE IF b.n = 0 THEN (IF a.n = 0 THEN NaN ELSE Inf(Sign(a.n)))
    ELSE Rat(a.n * b.d, a.d * b.n)

\* a > b; every comparison with NaN is false.
Gt(a, b) ==
    IF a.k = "nan" \/ b.k = "nan" THEN FALSE
    ELSE IF a.k = "inf" THEN a.n = 1 /\ ~(b.k = "inf" /\ b.n = 1)
    ELSE IF b.k = "inf" THEN b.n = -1
    ELSE a.n * b.d > b.n * a.d

\* src/App.tsx:34  const ANOMALY_THRESHOLD = 0.30
ANOMALY_THRESHOLD == Rat(30, 100)

\* ------------------------------------------------------------- math helpers

\* The sum of the first k elements of s, added up from the left starting at 0.
RECURSIVE SumTo(_, _)
SumTo(s, k) == IF k = 0 THEN Num(0) ELSE Add(SumTo(s, k - 1), s[k])

\* Array.prototype.reduce((a, b) => a + b, 0) over a sequence of numbers.
SumSeq(s) == SumTo(s, Len(s))

getMean(data) == Div(SumSeq(data), Num(Len(data)))

\* The four running sums of detrend's loop; JavaScript index i is TLA+ index i + 1.
SumX(data)  == SumSeq([j \in 1..Len(data) |-> Num(j - 1)])
SumY(data)  == SumSeq(data)
SumXY(data) == SumSeq([j \in 1..Len(data) |-> Mul(Num(j - 1), data[j])])
SumXX(data) == SumSeq([j \in 1..Len(data) |-> Num((j - 1) * (j - 1))])

\* n * sumXX - sumX * sumX
detrendDenominator(data) ==
    Sub(Mul(Num(Len(data)), SumXX(data)), Mul(SumX(data), SumX(data)))

\* m = (n * sumXY - sumX * sumY) / (n * sumXX - sumX * sumX)
detrendSlope(data) ==
    Div(Sub(Mul(Num(Len(data)), SumXY(data)), Mul(SumX(data), SumY(data))),
        detrendDenominator(data))

\* An intercept that forgets the slope: the mean of the samples.
detrendInterceptOfMean(data, m) == Div(SumY(data), Num(Len(data)))

\* c = (sumY - m * sumX) / n
detrendIntercept(data, m) ==
    Div(Sub(SumY(data), Mul(m, SumX(data))), Num(Len(data)))

detrend(data) ==
    IF Len(data) = 0 THEN data
    ELSE LET m == detrendSlope(data)
             c == detrendIntercept(data, m)
         IN  [j \in 1..Len(data) |-> Sub(data[j], Add(Mul(m, Num(j - 1)), c))]

\* performInference, step 1: detrend, then subtract the mean.
Preprocess(rawWindow) ==
    LET processedData == detrend([j \in 1..Len(rawWindow) |-> Num(rawWindow[j])])
        mu == getMean(processedData)
    IN  [j \in 1..Len(processedData) |-> Sub(processedData[j], mu)]

\* ------------------------------------------------- transport payload decoding

\* A string is a sequence of character codes; a base64 text is a sequence of
\* sextets 0..63, with 64 standing for the padding character "=".
B64_PAD == 64

\* What the BLE stack does to the characteristic's bytes before the callback.
RECURSIVE Base64Encode(_)
Base64Encode(bytes) ==
    IF Len(bytes) = 0 THEN <<>>
    ELSE IF Len(bytes) = 1
         THEN <<bytes[1] \div 4, (bytes[1] % 4) * 16, B64_PAD, B64_PAD>>
    ELSE IF Len(bytes) = 2
         THEN <<bytes[1] \div 4, (bytes[1] % 4) * 16 + bytes[2] \div 16,
                (bytes[2] % 16) * 4, B64_PAD>>
    ELSE <<bytes[1] \div 4, (bytes[1] % 4) * 16 + bytes[2] \div 16,
           (bytes[2] % 16) * 4 + bytes[3] \div 64, bytes[3] % 64>>
         \o Base64Encode(SubSeq(bytes, 4, Len(bytes)))

\* The sextets before the first padding character.
RECURSIVE BeforePad(_)
BeforePad(q) ==
    IF q = <<>> \/ q[1] = B64_PAD THEN <<>> ELSE <<q[1]>> \o BeforePad(Tail(q))

RECURSIVE SextetsToBytes(_)
SextetsToBytes(q) ==
    IF Len(q) < 2 THEN <<>>
    ELSE IF Len(q) = 2 THEN <<q[1] * 4 + q[2] \div 16>>
    ELSE IF Len(q) = 3
         THEN <<q[1] * 4 + q[2] \div 16, (q[2] % 16) * 16 + q[3] \div 4>>
    ELSE <<q[1] * 4 + q[2] \div 16, (q[2] % 16) * 16 + q[3] \div 4,
           (q[3] % 4) * 64 + q[4]>>
         \o SextetsToBytes(SubSeq(q, 5, Len(q)))

\* Buffer.from(rawValueBase64, 'base64')
Base64Decode(q) == SextetsToBytes(BeforePad(q))

\* Buffer.toString('ascii'): every byte with its high bit cleared.
ToAscii(bytes) == [j \in 1..Len(bytes) |-> bytes[j] % 128]

IsDigit(c) == c \in 48..57

IsWhiteSpace(c) == c \in {9, 10, 11, 12, 13, 32}

RECURSIVE TrimStart(_)
TrimStart(s) == IF s # <<>> /\ IsWhiteSpace(s[1]) THEN TrimStart(Tail(s)) ELSE s

\* Length of the longest prefix of s made of decimal digits.
RECURSIVE DigitRun(_)
DigitRun(s) == IF s # <<>> /\ IsDigit(s[1]) THEN 1 + DigitRun(Tail(s)) ELSE 0

RECURSIVE DecimalValue(_)
DecimalValue(s) ==
    IF s = <<>> THEN 0 ELSE 10 * DecimalValue(SubSeq(s, 1, Len(s) - 1)) + (s[Len(s)] - 48)

\* parseInt(decodedString, 10): leading white space, an optional sign, then the
\* longest run of digits; NaN when that run is empty.  What follows the digits
\* is ignored.
parseInt(s) ==
    LET t == TrimStart(s)
        signed == t # <<>> /\ t[1] \in {43, 45}
        u == IF signed THEN Tail(t) ELSE t
        k == DigitRun(u)
    IN  IF k = 0 THEN NaN
        ELSE Num((IF signed /\ t[1] = 45 THEN -1 ELSE 1) * DecimalValue(SubSeq(u, 1, k)))

\* ------------------------------------------------------------------- inputs

\* n * sumXX - sumX * sumX for a full window, times the window length: a sample
\* that is a multiple of it detrends to whole numbers.
DetrendUnit ==
    MODEL_INPUT_SIZE * detrendDenominator([j \in 1..MODEL_INPUT_SIZE |-> Num(0)]).n

\* The two readings the sensor sends: the baseline and a spike large enough for
\* the variance of a window to pass SPIKE_VARIANCE.
LowSample == 0
HighSample == DetrendUnit * ((2999 \div DetrendUnit) + 1)

\* The windows of the two readings, numbered: bit j - 1 of a window's code is
\* set when its j-th sample is HighSample.  The tables below hold, per code,
\* what the pipeline computes for that window.
RECURSIVE Pow2(_)
Pow2(k) == IF k = 0 THEN 1 ELSE 2 * Pow2(k - 1)

WindowCodes == 0..(Pow2(MODEL_INPUT_SIZE) - 1)

WindowOfCode(c) ==
    [j \in 1..MODEL_INPUT_SIZE |->
        IF (c \div Pow2(j - 1)) % 2 = 1 THEN HighSample ELSE LowSample]

RECURSIVE CodeTo(_, _)
CodeTo(w, k) ==
    IF k = 0 THEN 0
    ELSE 2 * CodeTo(w, k - 1) + (IF w[Len(w) - k + 1] = HighSample THEN 1 ELSE 0)

\* CodeTo reads w from its last sample to its first, so the first sample ends
\* up in bit 0.
CodeOfWindow(w) == CodeTo(w, Len(w))

IsTabulated(w) ==
    /\ Len(w) = MODEL_INPUT_SIZE
    /\ \A j \in 1..Len(w) : w[j] \in {LowSample, HighSample}

\* Preprocess, tabulated.
PreprocessTable == [c \in WindowCodes |-> Preprocess(WindowOfCode(c))]

normalize(rawWindow) ==
    IF IsTabulated(rawWindow) THEN PreprocessTable[CodeOfWindow(rawWindow)]
    ELSE Preprocess(rawWindow)

\* Decimal text of a natural number, as the sensor prints it.
RECURSIVE ToDecimal(_)
ToDecimal(n) == IF n < 10 THEN <<48 + n>> ELSE ToDecimal(n \div 10) \o <<48 + (n % 10)>>

\* Characteristic payloads: the two readings, a reading followed by a letter,
\* a letter alone, and no bytes at all.
Payloads ==
    { ToDecimal(LowSample), ToDecimal(HighSample),
      ToDecimal(HighSample) \o <<120>>, <<97>>, <<>> }

\* The (error, characteristic) pairs the monitor callback is called with.
Notifications ==
    { [error |-> TRUE, hasValue |-> FALSE, value |-> <<>>],
      [error |-> FALSE, hasValue |-> FALSE, value |-> <<>>] }
    \cup { [error |-> FALSE, hasValue |-> TRUE, value |-> Base64Encode(p)] : p \in Payloads }

\* Values of Math.random(), which lies in [0, 1).
RandomValues == { Num(0), Rat(99, 100) }

\* Four tenths whose squares add up to 30 * MODEL_INPUT_SIZE: differences that
\* make the mean squared error exactly ANOMALY_THRESHOLD.
ThresholdTenths ==
    CHOOSE q \in (0..20) \X (0..20) \X (0..20) \X (0..20) :
        /\ q[1] * q[1] + q[2] * q[2] + q[3] * q[3] + q[4] * q[4] = 30 * MODEL_INPUT_SIZE
        /\ q[1] >= q[2] /\ q[2] >= q[3] /\ q[3] >= q[4]

\* What session.run does with a window: it throws, or returns a reconstruction
\* that is short, exact or long by one element.  A reconstruction is given by
\* its difference from the input at each position: one everywhere (error 1),
\* or ThresholdTenths on the first four positions and nothing elsewhere (error
\* exactly ANOMALY_THRESHOLD).
EngineDeltas ==
    { [j \in 1..(MODEL_INPUT_SIZE + 1) |-> Num(1)],
      [j \in 1..(MODEL_INPUT_SIZE + 1) |->
          IF j <= 4 THEN Rat(ThresholdTenths[j], 10) ELSE Num(0)] }
EngineLengths == { MODEL_INPUT_SIZE - 1, MODEL_INPUT_SIZE, MODEL_INPUT_SIZE + 1 }

\* --------------------------------------------------------------------- state

VARIABLES
    cfg,              \* [FS, SEQ_LEN_SEC]: the model settings, fixed at build time
    useMockAI,        \* USE_MOCK_AI, fixed at build time
    session,          \* React state: "null", "dummy" or "onnx"
    aiState,          \* initializeAI: "loading", "loaded" or "failed"
    device,           \* React state: "null" or "device"
    connectionStatus, \* React state
    scanning,         \* the BLE manager is scanning
    connecting,       \* connectToDevice is between its awaits
    monitoring,       \* the characteristic subscription is live
    cbSession,        \* session as captured by the render whose button started the scan
    healthStatus,     \* React state
    mseScore,         \* React state
    pendingStatus,    \* the setHealthStatus call performInference is about to make
    displayData,      \* React state
    currentVal,       \* React state
    inferenceBuffer,  \* inferenceBuffer.current
    inflight,         \* pending session.run calls: [id, rawWindow]
    \* history, for stating the properties
    accepted,         \* every value processNewDataPoint was called with, in order
    bufferEpochs,     \* the sensor session of each element of inferenceBuffer
    windows,          \* every window handed to performInference, in order
    outcome,          \* per window: "mock", "nosession", "pending", "published", "rejected"
    published,        \* the windows whose result was published, in order of publication
    epoch,            \* number of sensor sessions started
    lastPayload,      \* the decoded text of the last notification that was accepted
    lastReconLen,     \* the length of the last reconstruction session.run returned
    \* the math helper on its own
    detrendCall       \* one call of detrend: [data, called, result, zeroDenominator]

vars == <<cfg, useMockAI, session, aiState, device, connectionStatus, scanning, connecting,
          monitoring, cbSession, healthStatus, mseScore, pendingStatus, displayData, currentVal,
          inferenceBuffer, inflight, accepted, bufferEpochs, windows, outcome,
          published, epoch, lastPayload, lastReconLen, detrendCall>>

aiVars == <<cfg, useMockAI, session, aiState>>
bleVars == <<device, connectionStatus, scanning, connecting, monitoring, cbSession, epoch>>
scoreVars == <<healthStatus, mseScore, pendingStatus, published, lastReconLen>>
sampleVars == <<displayData, currentVal, inferenceBuffer, accepted, bufferEpochs, windows,
                lastPayload>>

\* The slide whose result is thrown away: the buffer is left as it was.
SliceDiscarded(s, k) == s

\* A slide that drops one sample too few.
SliceOneLess(s, k) == SubSeq(s, k, Len(s))

\* A buffer that is emptied where it should slide.
SliceAll(s, k) == <<>>

\* A slide that drops one sample too many.
SliceOneMore(s, k) == SubSeq(s, k + 2, Len(s))

\* Array.prototype.slice(k)
Slice(s, k) == SubSeq(s, k + 1, Len(s))

\* A trigger that waits for one sample more than a window.
triggerStrict(len) == len > cfg.FS * cfg.SEQ_LEN_SEC

\* if (inferenceBuffer.current.length >= MODEL_INPUT_SIZE), MODEL_INPUT_SIZE
\* being FS * SEQ_LEN_SEC of the build.
triggerReached(len) == len >= cfg.FS * cfg.SEQ_LEN_SEC

Square(a) == Mul(a, a)

\* No handler is in the middle of its run: JavaScript runs each callback to its
\* end, or to its next await, before it starts another.
Idle == pendingStatus = <<>>

\* ------------------------------------------------------------------ start-up

\* The model settings of the build under study.
BuildConfig == [FS |-> FS, SEQ_LEN_SEC |-> SEQ_LEN_SEC]

\* Builds with other model settings: every sampling rate and window duration up
\* to those of BuildConfig, a duration of one second or none included.
Configurations == [FS : 1..FS, SEQ_LEN_SEC : 0..SEQ_LEN_SEC]

\* SLIDE_SIZE >= WINDOW_SIZE: the buffer is slid by FS samples and a window has
\* FS * SEQ_LEN_SEC of them.
IsDegenerate(c) == c.FS >= c.FS * c.SEQ_LEN_SEC

\* The state after the first render and its effect: initializeAI has set the
\* dummy session (mock) or is awaiting the model file (ONNX).
Constructed ==
    /\ useMockAI \in BOOLEAN
    /\ session = IF useMockAI THEN "dummy" ELSE "null"
    /\ aiState = IF useMockAI THEN "loaded" ELSE "loading"
    /\ device = "null"
    /\ connectionStatus = "Disconnected"
    /\ scanning = FALSE
    /\ connecting = FALSE
    /\ monitoring = FALSE
    /\ cbSession = "null"
    /\ healthStatus = "NORMAL"
    /\ mseScore = Num(0)
    /\ pendingStatus = <<>>
    /\ displayData = [j \in 1..VISUAL_POINTS |-> DISPLAY_FILL]
    /\ currentVal = 0
    /\ inferenceBuffer = <<>>
    /\ inflight = {}
    /\ accepted = <<>>
    /\ bufferEpochs = <<>>
    /\ windows = <<>>
    /\ outcome = <<>>
    /\ published = <<>>
    /\ epoch = 0
    /\ lastPayload = <<>>
    /\ lastReconLen = 0

\* No call of detrend outside performInference.
NoCall == [data |-> <<>>, called |-> FALSE, result |-> <<>>, zeroDenominator |-> FALSE]

Init == cfg = BuildConfig /\ detrendCall = NoCall /\ Constructed

\* initializeAI, ONNX branch: InferenceSession.create resolves, or something in
\* the try block throws.
initializeAI ==
    /\ Idle
    /\ ~useMockAI
    /\ aiState = "loading"
    /\ \/ /\ session' = "onnx"
          /\ aiState' = "loaded"
       \/ /\ session' = session
          /\ aiState' = "failed"
    /\ UNCHANGED <<detrendCall, cfg, useMockAI, bleVars, scoreVars, sampleVars, inflight, outcome>>

\* ------------------------------------------------------------------ bluetooth

\* The Scan & Connect button, rendered while device is null.  The callbacks it
\* registers are closures of this render, so they see this render's session.
scanAndConnect ==
    /\ Idle
    /\ device = "null"
    /\ ~scanning /\ ~connecting
    /\ epoch < MaxSessions
    /\ connectionStatus' = "Scanning..."
    /\ scanning' = TRUE
    /\ cbSession' = session
    /\ UNCHANGED <<detrendCall, aiVars, device, connecting, monitoring, epoch, scoreVars,
                   sampleVars, inflight, outcome>>

\* The scan callback: an error, or a device with the expected name.
scanCallback ==
    /\ Idle
    /\ scanning
    /\ scanning' = FALSE
    /\ \/ /\ connectionStatus' = "Scan Error"
          /\ connecting' = FALSE
       \/ /\ connectionStatus' = "Connecting..."
          /\ connecting' = TRUE
    /\ UNCHANGED <<detrendCall, aiVars, device, monitoring, cbSession, epoch, scoreVars, sampleVars,
                   inflight, outcome>>

\* connectToDevice: connect() rejects; or it resolves and discovery rejects; or
\* both resolve and startStreaming subscribes to the characteristic.
connectToDevice ==
    /\ Idle
    /\ connecting
    /\ connecting' = FALSE
    /\ \/ /\ connectionStatus' = "Connection Failed"
          /\ UNCHANGED <<device, monitoring, epoch>>
       \/ /\ device' = "device"
          /\ connectionStatus' = "Connection Failed"
          /\ UNCHANGED <<monitoring, epoch>>
       \/ /\ device' = "device"
          /\ connectionStatus' = "Connected"
          /\ monitoring' = TRUE
          /\ epoch' = epoch + 1
    /\ UNCHANGED <<detrendCall, aiVars, scanning, cbSession, scoreVars, sampleVars, inflight,
                   outcome>>

\* The Disconnect button, rendered while device is set.
Disconnect ==
    /\ Idle
    /\ device = "device"
    /\ device' = "null"
    /\ connectionStatus' = "Disconnected"
    /\ monitoring' = FALSE
    /\ UNCHANGED <<detrendCall, aiVars, scanning, connecting, cbSession, epoch, scoreVars,
                   sampleVars, inflight, outcome>>

\* ------------------------------------------------------------- core pipeline

\* A mock branch without the forced anomaly.
simulatedMseNoSpike(normWindow, r) == Add(Rat(5, 100), Mul(r, Rat(2, 100)))

\* performInference, mock branch: the error it simulates for a normalized
\* window, r being the value of Math.random().
simulatedMse(normWindow, r) ==
    LET variance ==
            Div(SumSeq([j \in 1..Len(normWindow) |-> Square(normWindow[j])]),
                Num(Len(normWindow)))
    IN  IF Gt(variance, Num(SPIKE_VARIANCE)) THEN Rat(45, 100)
        ELSE Add(Rat(5, 100), Mul(r, Rat(2, 100)))

\* simulatedMse of the preprocessed window, tabulated.
SimulatedMseTable ==
    [c \in WindowCodes |-> [r \in RandomValues |-> simulatedMse(PreprocessTable[c], r)]]

mockMse(rawWindow, r) ==
    IF IsTabulated(rawWindow) THEN SimulatedMseTable[CodeOfWindow(rawWindow)][r]
    ELSE simulatedMse(Preprocess(rawWindow), r)

\* setHealthStatus(simulatedMse > ANOMALY_THRESHOLD ? 'ANOMALY' : 'NORMAL')
mockHealthStatus(mse) == IF Gt(mse, ANOMALY_THRESHOLD) THEN "ANOMALY" ELSE "NORMAL"

\* The decision rule with the boundary on the wrong side.
modelHealthStatusNonStrict(mse) ==
    IF mse = ANOMALY_THRESHOLD \/ Gt(mse, ANOMALY_THRESHOLD) THEN "ANOMALY" ELSE "NORMAL"

\* setHealthStatus(mse > ANOMALY_THRESHOLD ? 'ANOMALY' : 'NORMAL')
modelHealthStatus(mse) == IF Gt(mse, ANOMALY_THRESHOLD) THEN "ANOMALY" ELSE "NORMAL"

\* performInference, ONNX branch, after session.run has resolved: the mean of
\* the squared differences over floatData's positions.  Reading a Float32Array
\* past its end gives undefined, and a number minus undefined is NaN.
reconstructionMse(floatData, reconstruction) ==
    LET diff(j) == IF j <= Len(reconstruction)
                   THEN Sub(floatData[j], reconstruction[j])
                   ELSE NaN
    IN  Div(SumSeq([j \in 1..Len(floatData) |-> Square(diff(j))]), Num(Len(floatData)))

\* The reconstruction of len elements that differs from floatData by delta.
engineOutput(floatData, delta, len) ==
    [j \in 1..len |-> IF j <= Len(floatData) THEN Add(floatData[j], delta[j]) ELSE delta[j]]

\* reconstructionMse of the preprocessed window against each engine output,
\* tabulated.
ReconstructionMseTable ==
    [c \in WindowCodes |->
        [delta \in EngineDeltas |->
            [len \in EngineLengths |->
                reconstructionMse(PreprocessTable[c],
                                  engineOutput(PreprocessTable[c], delta, len))]]]

modelMse(rawWindow, delta, len) ==
    IF IsTabulated(rawWindow)
    THEN ReconstructionMseTable[CodeOfWindow(rawWindow)][delta][len]
    ELSE reconstructionMse(Preprocess(rawWindow),
                           engineOutput(Preprocess(rawWindow), delta, len))

\* setMseScore(mse); setHealthStatus(status), for the window id.  React applies
\* the two updates in one render when it batches them (a concurrent root); when
\* it does not (a legacy root, the calls being made from a native callback or
\* after an await) setMseScore renders at once, with the health status of the
\* render before, and setHealthStatus follows.  A result counts as published
\* once both updates are applied.
publish(mse, status, id) ==
    /\ mseScore' = mse
    /\ \/ /\ healthStatus' = status
          /\ published' = Append(published, id)
          /\ pendingStatus' = <<>>
       \/ /\ pendingStatus' = <<[id |-> id, status |-> status]>>
          /\ UNCHANGED <<healthStatus, published>>

\* The setHealthStatus call that follows a setMseScore that has rendered.
setHealthStatus ==
    /\ pendingStatus # <<>>
    /\ healthStatus' = pendingStatus[1].status
    /\ published' = Append(published, pendingStatus[1].id)
    /\ pendingStatus' = <<>>
    /\ UNCHANGED <<detrendCall, aiVars, bleVars, sampleVars, mseScore, lastReconLen,
                   inflight, outcome>>

\* A hand-off without the copy, the buffer being slid in place: the window the
\* inference works on has lost the samples the slide dropped.
performInferenceAliased(rawWindow, id) ==
    LET aliased == SubSeq(rawWindow, cfg.FS + 1, Len(rawWindow))
    IN  IF useMockAI
        THEN \E r \in RandomValues :
                LET mse == mockMse(aliased, r)
                IN  /\ publish(mse, mockHealthStatus(mse), id)
                    /\ outcome' = Append(outcome, "mock")
                    /\ UNCHANGED <<inflight, lastReconLen>>
        ELSE IF cbSession = "null"
        THEN /\ outcome' = Append(outcome, "nosession")
             /\ UNCHANGED <<scoreVars, inflight>>
        ELSE /\ inflight' = inflight \cup {[id |-> id, rawWindow |-> aliased]}
             /\ outcome' = Append(outcome, "pending")
             /\ UNCHANGED scoreVars

\* A mock branch that returns before it publishes.
performInferenceSkipsMock(rawWindow, id) ==
    IF useMockAI \/ cbSession = "null"
    THEN /\ outcome' = Append(outcome, IF useMockAI THEN "mock" ELSE "nosession")
         /\ UNCHANGED <<scoreVars, inflight>>
    ELSE /\ inflight' = inflight \cup {[id |-> id, rawWindow |-> rawWindow]}
         /\ outcome' = Append(outcome, "pending")
         /\ UNCHANGED scoreVars

\* performInference(rawWindow), up to its first await.  id is the window's place
\* in the order of emission.
performInference(rawWindow, id) ==
    IF useMockAI
    THEN \E r \in RandomValues :
            LET mse == mockMse(rawWindow, r)
            IN  /\ publish(mse, mockHealthStatus(mse), id)
                /\ outcome' = Append(outcome, "mock")
                /\ UNCHANGED <<inflight, lastReconLen>>
    ELSE IF cbSession = "null"
    THEN /\ outcome' = Append(outcome, "nosession")
         /\ UNCHANGED <<scoreVars, inflight>>
    ELSE /\ inflight' = inflight \cup {[id |-> id, rawWindow |-> rawWindow]}
         /\ outcome' = Append(outcome, "pending")
         /\ UNCHANGED scoreVars

\* processNewDataPoint(value)
processNewDataPoint(value) ==
    LET newData == Append(displayData, value)
        pushed == Append(inferenceBuffer, value)
        pushedEpochs == Append(bufferEpochs, epoch)
    IN  /\ currentVal' = value
        /\ displayData' = IF Len(newData) > VISUAL_POINTS THEN Tail(newData) ELSE newData
        /\ accepted' = Append(accepted, value)
        /\ IF triggerReached(Len(pushed))
           THEN /\ inferenceBuffer' = Slice(pushed, cfg.FS)
                /\ bufferEpochs' = Slice(pushedEpochs, cfg.FS)
                /\ windows' = Append(windows, [rawWindow |-> pushed,
                                               at |-> Len(accepted) + 1,
                                               epochs |-> pushedEpochs])
                /\ performInference(pushed, Len(windows) + 1)
           ELSE /\ inferenceBuffer' = pushed
                /\ bufferEpochs' = pushedEpochs
                /\ UNCHANGED <<windows, outcome, scoreVars, inflight>>

\* parseInt(Buffer.from(rawValueBase64, 'base64').toString('ascii'), 10) for
\* each notification, tabulated.
DecodedString == [n \in Notifications |-> ToAscii(Base64Decode(n.value))]
ParsedValue == [n \in Notifications |-> parseInt(DecodedString[n])]

\* The callback startStreaming gives to monitorCharacteristicForService.
startStreaming ==
    /\ Idle
    /\ monitoring
    /\ \E n \in Notifications :
          LET rawValueBase64 == n.value
              value == ParsedValue[n]
          IN  IF ~n.error /\ n.hasValue /\ rawValueBase64 # <<>> /\ ~IsNaN(value)
              THEN /\ Len(accepted) < MaxSamples
                   /\ processNewDataPoint(value.n)
                   /\ lastPayload' = DecodedString[n]
              ELSE UNCHANGED <<sampleVars, scoreVars, inflight, outcome>>
    /\ UNCHANGED <<detrendCall, aiVars, bleVars>>

\* session.run resolves for one of the pending calls.
runResolves ==
    \E f \in inflight, delta \in EngineDeltas, len \in EngineLengths :
        LET mse == modelMse(f.rawWindow, delta, len)
        IN  /\ Idle
            /\ publish(mse, modelHealthStatus(mse), f.id)
            /\ lastReconLen' = len
            /\ outcome' = [outcome EXCEPT ![f.id] = "published"]
            /\ inflight' = inflight \ {f}
            /\ UNCHANGED <<detrendCall, aiVars, bleVars, sampleVars>>

\* A catch block that reports the failure as a diagnosis.
runRejectsPublishes ==
    \E f \in inflight :
        /\ Idle
        /\ outcome' = [outcome EXCEPT ![f.id] = "rejected"]
        /\ inflight' = inflight \ {f}
        /\ mseScore' = NaN
        /\ healthStatus' = "ANOMALY"
        /\ UNCHANGED <<detrendCall, aiVars, bleVars, sampleVars, pendingStatus, published,
                       lastReconLen>>

\* session.run rejects, or reading its result throws: the catch block logs.
runRejects ==
    \E f \in inflight :
        /\ Idle
        /\ outcome' = [outcome EXCEPT ![f.id] = "rejected"]
        /\ inflight' = inflight \ {f}
        /\ UNCHANGED <<detrendCall, aiVars, bleVars, sampleVars, scoreVars>>

Next ==
    \/ initializeAI
    \/ scanAndConnect
    \/ scanCallback
    \/ connectToDevice
    \/ Disconnect
    \/ startStreaming
    \/ runResolves
    \/ runRejects
    \/ setHealthStatus

Spec == Init /\ [][Next]_vars

\* The pipeline during one sensor session: the state Spec is in once the AI is
\* initialized and connectToDevice has subscribed, and from there the steps of
\* the monitor callback and of the pending inferences.
Streaming ==
    /\ useMockAI \in BOOLEAN
    /\ session = IF useMockAI THEN "dummy" ELSE "onnx"
    /\ aiState = "loaded"
    /\ device = "device"
    /\ connectionStatus = "Connected"
    /\ scanning = FALSE
    /\ connecting = FALSE
    /\ monitoring = TRUE
    /\ cbSession = session
    /\ healthStatus = "NORMAL"
    /\ mseScore = Num(0)
    /\ pendingStatus = <<>>
    /\ displayData = [j \in 1..VISUAL_POINTS |-> DISPLAY_FILL]
    /\ currentVal = 0
    /\ inferenceBuffer = <<>>
    /\ inflight = {}
    /\ accepted = <<>>
    /\ bufferEpochs = <<>>
    /\ windows = <<>>
    /\ outcome = <<>>
    /\ published = <<>>
    /\ epoch = 1
    /\ lastPayload = <<>>
    /\ lastReconLen = 0

InitStream == cfg = BuildConfig /\ detrendCall = NoCall /\ Streaming

NextStream ==
    \/ startStreaming
    \/ runResolves
    \/ runRejects
    \/ setHealthStatus

SpecStream == InitStream /\ [][NextStream]_vars

\* The sample buffer in a build with any of the model settings, as the monitor
\* callback drives it.  Nothing runs between the constants' definitions and the
\* first sample that looks at them.
InitConfig == cfg \in Configurations /\ detrendCall = NoCall /\ Streaming

NextConfig == startStreaming \/ setHealthStatus

SpecConfig == InitConfig /\ [][NextConfig]_vars

\* ----------------------------------------------------------- detrend alone

\* Largest absolute value of a sample, a slope or an intercept given to detrend.
MaxCoef == 2
\* Longest array of arbitrary samples given to detrend.
MaxDataLen == 3
\* Longest array of samples on a line given to detrend.
MaxLineLen == 4

\* The array of n samples data[i] = a * i + b, i = 0 .. n - 1.
Line(a, b, n) == [j \in 1..n |-> a * (j - 1) + b]

\* The arrays detrend is called with: every array of up to MaxDataLen samples,
\* the empty one and those of one sample included, and the arrays on a line.
DetrendInputs ==
    UNION { [1..n -> (-MaxCoef)..MaxCoef] : n \in 0..MaxDataLen }
    \cup { Line(a, b, n) : a \in (-MaxCoef)..MaxCoef, b \in (-MaxCoef)..MaxCoef,
                           n \in 2..MaxLineLen }

AsNumbers(data) == [j \in 1..Len(data) |-> Num(data[j])]

\* detrend(data).  Past its test of n === 0 it divides by n * sumXX - sumX * sumX.
callDetrend ==
    /\ ~detrendCall.called
    /\ detrendCall' =
          [detrendCall EXCEPT
              !.called = TRUE,
              !.result = detrend(AsNumbers(detrendCall.data)),
              !.zeroDenominator =
                  /\ Len(detrendCall.data) # 0
                  /\ detrendDenominator(AsNumbers(detrendCall.data)) = Num(0)]
    /\ UNCHANGED <<aiVars, bleVars, scoreVars, sampleVars, inflight, outcome>>

InitDetrend ==
    /\ cfg = BuildConfig
    /\ detrendCall \in { [NoCall EXCEPT !.data = d] : d \in DetrendInputs }
    /\ Constructed

NextDetrend == callDetrend

SpecDetrend == InitDetrend /\ [][NextDetrend]_vars

\* -------------------------------------------------------------- properties

\* The number of accepted samples when the last window was emitted, 0 when none was.
LastEmissionAt == IF windows = <<>> THEN 0 ELSE windows[Len(windows)].at

\* A step of processNewDataPoint, and one that emitted a window.
Pushed == accepted' # accepted
Emitted == Len(windows') > Len(windows)

HasBoth(w) == (\E j \in 1..Len(w) : w[j] = LowSample) /\ (\E j \in 1..Len(w) : w[j] = HighSample)

\* C1: every window handed to performInference has exactly MODEL_INPUT_SIZE
\* elements, and they are the MODEL_INPUT_SIZE samples accepted last before the
\* hand-off, in arrival order; a pending inference holds the window it was given.
C1_WindowIsLatestSamples ==
    /\ \A i \in 1..Len(windows) :
          /\ Len(windows[i].rawWindow) = MODEL_INPUT_SIZE
          /\ windows[i].at >= MODEL_INPUT_SIZE
          /\ windows[i].rawWindow =
                SubSeq(accepted, windows[i].at - MODEL_INPUT_SIZE + 1, windows[i].at)
    /\ \A f \in inflight : f.rawWindow = windows[f.id].rawWindow

\* A window of both readings has been handed over.
C1_Witness == \E i \in 1..Len(windows) : HasBoth(windows[i].rawWindow)

\* C2, as stated: a push emits a window exactly when the pushes since the last
\* emission (since the start, when there was none) reach MODEL_INPUT_SIZE.
C2_EmitsEveryWindowSize ==
    [][Pushed => (Emitted <=> (Len(accepted') - LastEmissionAt = MODEL_INPUT_SIZE))]_vars

\* C2, amended: a push emits a window exactly when the pushes since the start
\* reach MODEL_INPUT_SIZE (no window emitted yet) or the pushes since the last
\* emission reach FS (afterwards).
C2_EmitsEverySlide ==
    [][Pushed => (Emitted <=> (Len(accepted') - LastEmissionAt =
                                  IF windows = <<>> THEN MODEL_INPUT_SIZE ELSE FS))]_vars

\* A second window has been emitted, FS pushes after the first.
C2_Witness == Len(windows) >= 2 /\ windows[2].at - windows[1].at = FS

\* C3: of two successive windows, the last MODEL_INPUT_SIZE - FS elements of the
\* first are the first MODEL_INPUT_SIZE - FS elements of the second, position by
\* position, and the remaining FS elements of the second are the samples
\* accepted after the first was emitted.
C3_SuccessiveWindowsOverlap ==
    \A k \in 1..(Len(windows) - 1) :
        LET a == windows[k]
            b == windows[k + 1]
        IN  /\ Len(a.rawWindow) = MODEL_INPUT_SIZE
            /\ Len(b.rawWindow) = MODEL_INPUT_SIZE
            /\ SubSeq(a.rawWindow, FS + 1, MODEL_INPUT_SIZE)
                  = SubSeq(b.rawWindow, 1, MODEL_INPUT_SIZE - FS)
            /\ SubSeq(b.rawWindow, MODEL_INPUT_SIZE - FS + 1, MODEL_INPUT_SIZE)
                  = SubSeq(accepted, a.at + 1, b.at)

\* Two successive windows that differ, the carried-over part holding both readings.
C3_Witness ==
    /\ Len(windows) >= 2
    /\ windows[1].rawWindow # windows[2].rawWindow
    /\ HasBoth(SubSeq(windows[2].rawWindow, 1, MODEL_INPUT_SIZE - FS))

\* C4: in ONNX mode at most one call of session.run is pending at any time.
C4_RunsSerialized == Cardinality(inflight) <= 1

\* C5: results are published in the order in which their windows were emitted.
C5_PublishedInEmissionOrder ==
    \A i, j \in 1..Len(published) : i < j => published[i] < published[j]

\* The step in which the pending inference of window id fails.
Rejects(id) == outcome[id] = "pending" /\ outcome'[id] = "rejected"

\* C6: in ONNX mode a failing session.run publishes nothing for its window
\* (mseScore, healthStatus and the published results stay as they were), leaves
\* the sample buffer alone and starts no other call; and every window completed
\* while a session is held, also after a failure, gets its own session.run call.
C6_FailureDropsOnlyItsWindow ==
    [][/\ \A id \in 1..Len(outcome) :
             Rejects(id) =>
                /\ mseScore' = mseScore
                /\ healthStatus' = healthStatus
                /\ published' = published
                /\ inferenceBuffer' = inferenceBuffer
                /\ inflight' = {f \in inflight : f.id # id}
       /\ (Emitted /\ ~useMockAI /\ cbSession # "null") =>
             [id |-> Len(windows'), rawWindow |-> windows'[Len(windows')].rawWindow]
                \in inflight'
      ]_vars

\* The first window's inference has failed and the second window's result is
\* the only one published.
C6_Witness ==
    /\ Len(outcome) >= 2
    /\ outcome[1] = "rejected"
    /\ outcome[2] = "published"
    /\ published = <<2>>

\* C7: in ONNX mode a result is published only for a reconstruction of exactly
\* MODEL_INPUT_SIZE elements.
C7_MismatchPublishesNothing ==
    [][(~useMockAI /\ published' # published) => lastReconLen' = MODEL_INPUT_SIZE]_vars

\* C8: the samples of a window all come from one sensor session.
C8_WindowFromOneSession ==
    \A i \in 1..Len(windows) :
        \A j, k \in 1..Len(windows[i].epochs) : windows[i].epochs[j] = windows[i].epochs[k]

\* C9: whenever a result is published, by either branch, the classification is
\* ANOMALY exactly when the error is greater than ANOMALY_THRESHOLD; an error
\* equal to the threshold is published as NORMAL.
C9_DecisionRule ==
    [][published' # published =>
          /\ healthStatus' \in {"ANOMALY", "NORMAL"}
          /\ healthStatus' = "ANOMALY" <=> Gt(mseScore', ANOMALY_THRESHOLD)]_vars

\* The ONNX branch has published an error equal to the threshold as NORMAL.
C9_Witness ==
    /\ ~useMockAI
    /\ published # <<>>
    /\ mseScore = ANOMALY_THRESHOLD
    /\ healthStatus = "NORMAL"

\* A decimal integer and nothing else.
IsDecimalInteger(s) == s # <<>> /\ \A j \in 1..Len(s) : IsDigit(s[j])

\* C10: a notification whose payload is not a number is dropped, so every
\* sample that was accepted came from a payload that is a decimal integer.
C10_MalformedIsDropped == lastPayload = <<>> \/ IsDecimalInteger(lastPayload)

\* C11: a build whose slide is not smaller than its window is refused at
\* start-up: it never buffers a sample and never emits a window.
C11_DegenerateConfigRejected ==
    IsDegenerate(cfg) => (accepted = <<>> /\ inferenceBuffer = <<>> /\ windows = <<>>)

\* C12: detrend of an array of at most one sample returns the array as it was
\* given and divides by no zero denominator.
C12_DegenerateUnchanged ==
    (detrendCall.called /\ Len(detrendCall.data) <= 1) =>
        /\ detrendCall.result = AsNumbers(detrendCall.data)
        /\ ~detrendCall.zeroDenominator

\* C14: detrend of at least two samples on a line data[i] = a * i + b returns
\* as many zeros, the fitted slope being a and the fitted intercept b.
C14_LinearDetrendsToZero ==
    \A a \in (-MaxCoef)..MaxCoef, b \in (-MaxCoef)..MaxCoef, n \in 2..MaxLineLen :
        (detrendCall.called /\ detrendCall.data = Line(a, b, n)) =>
            /\ detrendCall.result = [j \in 1..n |-> Num(0)]
            /\ detrendSlope(AsNumbers(detrendCall.data)) = Num(a)
            /\ detrendIntercept(AsNumbers(detrendCall.data), Num(a)) = Num(b)

\* detrend has returned zeros for the longest line of the steepest slope, off
\* the origin.
C14_Witness ==
    /\ detrendCall.called
    /\ detrendCall.data = Line(MaxCoef, -1, MaxLineLen)
    /\ detrendCall.result = [j \in 1..MaxLineLen |-> Num(0)]

PopulationVariance(normWindow) ==
    Div(SumSeq([j \in 1..Len(normWindow) |-> Mul(normWindow[j], normWindow[j])]),
        Num(Len(normWindow)))

WindowVariance == [c \in WindowCodes |-> PopulationVariance(PreprocessTable[c])]

VarianceOf(rawWindow) ==
    IF IsTabulated(rawWindow) THEN WindowVariance[CodeOfWindow(rawWindow)]
    ELSE PopulationVariance(Preprocess(rawWindow))

IsConstantWindow(w) == \A j \in 1..Len(w) : w[j] = w[1]

\* 0.05 <= x < 0.07
InBaselineBand(x) == ~Gt(Rat(5, 100), x) /\ Gt(Rat(7, 100), x)

\* C13: in mock mode a published window is classified ANOMALY exactly when the
\* population variance of its normalized values is greater than SPIKE_VARIANCE;
\* when it is not, the published error lies in [0.05, 0.07), which is not above
\* ANOMALY_THRESHOLD, and the classification is NORMAL.  A window of one
\* repeated value has variance 0 and is classified NORMAL.
C13_MockClassifiesByVariance ==
    [][(useMockAI /\ published' # published) =>
          LET w == windows'[published'[Len(published')]].rawWindow
              v == VarianceOf(w)
          IN  /\ healthStatus' = "ANOMALY" <=> Gt(v, Num(SPIKE_VARIANCE))
              /\ ~Gt(v, Num(SPIKE_VARIANCE)) =>
                    /\ InBaselineBand(mseScore')
                    /\ ~Gt(mseScore', ANOMALY_THRESHOLD)
                    /\ healthStatus' = "NORMAL"
              /\ IsConstantWindow(w) => (v = Num(0) /\ healthStatus' = "NORMAL")]_vars

\* The mock branch has published a window of one repeated, non-zero value as
\* NORMAL with an error inside the baseline band.
C13_Witness ==
    /\ useMockAI
    /\ published # <<>>
    /\ LET w == windows[published[Len(published)]].rawWindow
       IN  IsConstantWindow(w) /\ w[1] = HighSample
    /\ healthStatus = "NORMAL"
    /\ InBaselineBand(mseScore)

\* C15: a window is emitted on the MODEL_INPUT_SIZE-th accepted sample and on
\* every FS-th one after it, and on no other: after n samples there are
\* 1 + (n - MODEL_INPUT_SIZE) \div FS windows (none while n < MODEL_INPUT_SIZE),
\* the k-th emitted on sample MODEL_INPUT_SIZE + (k - 1) * FS, and each window
\* after the first is the last MODEL_INPUT_SIZE - FS samples of the window
\* before it followed by the FS samples accepted since.
C15_SteadyStateCadence ==
    /\ Len(windows) = IF Len(accepted) < MODEL_INPUT_SIZE THEN 0
                      ELSE 1 + (Len(accepted) - MODEL_INPUT_SIZE) \div FS
    /\ \A k \in 1..Len(windows) : windows[k].at = MODEL_INPUT_SIZE + (k - 1) * FS
    /\ \A k \in 2..Len(windows) :
          windows[k].rawWindow =
             SubSeq(windows[k - 1].rawWindow, FS + 1, MODEL_INPUT_SIZE)
             \o SubSeq(accepted, windows[k].at - FS + 1, windows[k].at)

\* MODEL_INPUT_SIZE + FS samples have been accepted, the last FS of them of both
\* readings, and two windows have been emitted.
C15_Witness ==
    /\ Len(accepted) = MODEL_INPUT_SIZE + FS
    /\ Len(windows) = 2
    /\ HasBoth(SubSeq(accepted, MODEL_INPUT_SIZE + 1, MODEL_INPUT_SIZE + FS))

\* The buffer after the push of this step, and after its slide by FS.
PushedBuffer == Append(inferenceBuffer, accepted'[Len(accepted')])
SlidBuffer == SubSeq(PushedBuffer, FS + 1, Len(PushedBuffer))

\* C16: a window handed to performInference is a value of its own.  While its
\* inference is pending no step changes it, later pushes and slides of the
\* buffer included: it stays the MODEL_INPUT_SIZE samples it was made of.  And
\* processing a window leaves the buffer alone: a step that is not a push does
\* not change the buffer, and a push leaves it pushed, or pushed and slid by FS
\* when it emitted a window, however the window was processed.
C16_WindowIsIndependentCopy ==
    [][/\ \A f \in inflight : \A g \in inflight' : g.id = f.id => g.rawWindow = f.rawWindow
       /\ \A g \in inflight' :
             /\ Len(g.rawWindow) = MODEL_INPUT_SIZE
             /\ g.rawWindow = SubSeq(accepted', windows'[g.id].at - MODEL_INPUT_SIZE + 1,
                                     windows'[g.id].at)
       /\ ~Pushed => inferenceBuffer' = inferenceBuffer
       /\ Pushed => inferenceBuffer' = IF Emitted THEN SlidBuffer ELSE PushedBuffer
      ]_vars

\* The first window is pending, samples of the other reading have been pushed
\* since and the buffer has been slid, and the pending window is still the
\* first MODEL_INPUT_SIZE samples.
C16_Witness ==
    /\ \E f \in inflight :
          /\ f.id = 1
          /\ f.rawWindow = SubSeq(accepted, 1, MODEL_INPUT_SIZE)
          /\ IsConstantWindow(f.rawWindow)
    /\ Len(accepted) > MODEL_INPUT_SIZE
    /\ accepted[Len(accepted)] # accepted[1]
    /\ inferenceBuffer[Len(inferenceBuffer)] # accepted[1]

\* C17: in mock mode every emitted window gets one published result, in the
\* call of processNewDataPoint that emitted it: the step that emits the window
\* publishes its result, or leaves only the setHealthStatus call of that result
\* to run, which nothing precedes; so whenever a sample starts being processed,
\* and in every state between two callbacks, the published results are those
\* of the emitted windows, one each, in order.
C17_MockPublishesSynchronously ==
    /\ [](useMockAI /\ Idle => published = [k \in 1..Len(windows) |-> k])
    /\ [][useMockAI =>
             /\ Pushed => Len(published) = Len(windows)
             /\ Emitted =>
                   \/ published' = Append(published, Len(windows'))
                   \/ /\ pendingStatus' = <<[id |-> Len(windows'),
                                             status |-> pendingStatus'[1].status]>>
                      /\ published' = published
             /\ ~Idle => (published' = Append(published, pendingStatus[1].id) /\ Idle')
         ]_vars

\* Mock mode has emitted and published two windows.
C17_Witness ==
    /\ useMockAI
    /\ Idle
    /\ Len(windows) = 2
    /\ published = <<1, 2>>

\* C18: in ONNX mode the pipeline goes on without a session.  Every accepted
\* sample is buffered and every completed window slides the buffer by FS; a
\* window completed while the model has no session (loading, or failed to
\* load) publishes nothing and is not given to the mock branch; a window
\* completed once the model has its session is given to session.run.
C18_NoSessionDropsThenResumes ==
    [][(~useMockAI /\ Pushed) =>
          /\ inferenceBuffer' = IF Emitted THEN SlidBuffer ELSE PushedBuffer
          /\ (Emitted /\ session = "null") =>
                /\ mseScore' = mseScore
                /\ healthStatus' = healthStatus
                /\ published' = published
                /\ pendingStatus' = pendingStatus
                /\ inflight' = inflight
          /\ (Emitted /\ session # "null") =>
                [id |-> Len(windows'), rawWindow |-> windows'[Len(windows')].rawWindow]
                   \in inflight'
      ]_vars

\* C19: after every call of processNewDataPoint the buffer holds fewer than
\* MODEL_INPUT_SIZE samples, and exactly MODEL_INPUT_SIZE - FS after a call that
\* emitted a window, whatever becomes of the inferences.
C19_BufferBounded ==
    /\ [](Len(inferenceBuffer) < MODEL_INPUT_SIZE)
    /\ [][Emitted => Len(inferenceBuffer') = MODEL_INPUT_SIZE - FS]_vars

\* The first window's inference has failed and the buffer has grown again to
\* one sample short of a window.
C19_Witness ==
    /\ outcome # <<>>
    /\ outcome[1] = "rejected"
    /\ Len(inferenceBuffer) = MODEL_INPUT_SIZE - 1

====
